---- MODULE Spec2Model ----
(***************************************************************************)
(* A model of the MNIST GAN training script (src/src/mnist-gan.py) and of  *)
(* the video assembler (src/src/video-generator.py).                       *)
(*                                                                         *)
(* Tensors are modelled by their shape, the interval their values lie in   *)
(* and the set of models whose parameters their autograd graph reaches;    *)
(* the values themselves are not modelled.  Strings are sequences of ASCII *)
(* codes, so that formatting, concatenation and lexicographic order are    *)
(* computed and not assumed.                                               *)
(***************************************************************************)
EXTENDS Integers, Sequences, FiniteSets, TLC

VARIABLES
    pc, epoch, i,                       \* position in the training loop
    generator, discriminator,           \* the two models (parameters, gradients)
    images_all, labels_all,             \* the combined batch of the discriminator step
    discriminator_loss, generator_loss, \* the losses of the latest steps
    iterations,                         \* completed iterations of the inner loop
    printed, last_line,                 \* progress lines printed: how many, the latest
    saved, last_file, prev_file,        \* snapshots written: how many, the latest two
    vpc, argv, args, command,           \* the video assembler
    fpc, net, training, batch, x, layer \* one forward pass through one network

trainVars == <<pc, epoch, i, generator, discriminator, images_all, labels_all,
               discriminator_loss, generator_loss, iterations,
               printed, last_line, saved, last_file, prev_file>>
videoVars == <<vpc, argv, args, command>>
forwardVars == <<fpc, net, training, batch, x, layer>>
vars == <<trainVars, videoVars, forwardVars>>

(***************************************************************************)
(* Configuration of the training script.                                   *)
(***************************************************************************)
BATCH_SIZE == 200
EPOCHS == 20
LATENT_DIM == 100
REAL_LABEL == 1
FAKE_LABEL == 0
\* torchvision.datasets.MNIST(root, download=True): the 60000 training images
DATASET_SIZE == 60000
\* side of an MNIST image
IMAGE_SIZE == 28
\* `if i % 25 == 0`
LOG_EVERY == 25

\* int(BATCH_SIZE/2)
HalfBatch == BATCH_SIZE \div 2

(***************************************************************************)
(* Tensors.                                                                *)
(***************************************************************************)
Tensor(shape, range, graph) ==
    [ok |-> TRUE, shape |-> shape, range |-> range, graph |-> graph]

\* the outcome of an operation that raises
Raised == [ok |-> FALSE, shape |-> <<>>, range |-> "none", graph |-> {}]

RECURSIVE Prod(_)
Prod(s) == IF s = <<>> THEN 1 ELSE Head(s) * Prod(Tail(s))

\* torch.rand(n_samples, latent_dim): uniform over [0, 1)
generate_latent_points(latent_dim, n_samples) ==
    Tensor(<<n_samples, latent_dim>>, "[0,1)", {})

\* a batch of n dataset images after ToTensor and Normalize((0.5), (0.5))
ImageBatch(n) == Tensor(<<n, 1, IMAGE_SIZE, IMAGE_SIZE>>, "[-1,1]", {})

\* variant of Detach that keeps the autograd graph
DetachIdentity(t) == t

\* Tensor.detach(): the same values, cut off from the autograd graph
Detach(t) == IF t.ok THEN [t EXCEPT !.graph = {}] ELSE t

\* torch.cat along dimension 0: the other dimensions must agree
Cat(a, b) ==
    IF ~a.ok \/ ~b.ok THEN Raised
    ELSE IF Tail(a.shape) # Tail(b.shape) THEN Raised
    ELSE Tensor(<<a.shape[1] + b.shape[1]>> \o Tail(a.shape),
                IF a.range = b.range THEN a.range ELSE "R",
                a.graph \cup b.graph)

(***************************************************************************)
(* Layers.  ApplyLayer gives the output of one layer, or Raised where the  *)
(* layer rejects its input.                                                *)
(***************************************************************************)
Linear(in, out) == [kind |-> "Linear", in |-> in, out |-> out]
BatchNorm1d(n) == [kind |-> "BatchNorm1d", features |-> n]
BatchNorm2d(n) == [kind |-> "BatchNorm2d", features |-> n]
LeakyReLU == [kind |-> "LeakyReLU"]
Reshape(shape) == [kind |-> "Reshape", shape |-> shape]
ConvTranspose2d(cin, cout, k, stride) ==
    [kind |-> "ConvTranspose2d", cin |-> cin, cout |-> cout, k |-> k, stride |-> stride]
Conv2d(cin, cout, k, stride) ==
    [kind |-> "Conv2d", cin |-> cin, cout |-> cout, k |-> k, stride |-> stride]
Tanh == [kind |-> "Tanh"]
Sigmoid == [kind |-> "Sigmoid"]
Dropout == [kind |-> "Dropout"]
Flatten == [kind |-> "Flatten"]

\* variant of ConvTransposeOut that exactly doubles the side
ConvTransposeOutDoubling(h, k, stride) == h * stride

\* output side of a transposed convolution without padding
ConvTransposeOut(h, k, stride) == (h - 1) * stride + k

\* output side of a convolution without padding
ConvOut(h, k, stride) == (h - k) \div stride + 1

\* batch normalisation in training mode needs more than one value per channel
BatchNormRejects(shape, train) ==
    train /\ shape[1] * Prod(SubSeq(shape, 3, Len(shape))) = 1

ApplyLayer(l, t, train) ==
    IF ~t.ok THEN t
    ELSE LET s == t.shape
             n == Len(s) IN
    CASE l.kind = "Linear" ->
           IF s[n] # l.in THEN Raised
           ELSE Tensor(SubSeq(s, 1, n - 1) \o <<l.out>>, "R", t.graph)
      [] l.kind = "BatchNorm1d" ->
           IF n \notin {2, 3} \/ s[2] # l.features \/ BatchNormRejects(s, train)
           THEN Raised
           ELSE Tensor(s, "R", t.graph)
      [] l.kind = "BatchNorm2d" ->
           IF n # 4 \/ s[2] # l.features \/ BatchNormRejects(s, train)
           THEN Raised
           ELSE Tensor(s, "R", t.graph)
      [] l.kind = "LeakyReLU" -> t
      [] l.kind = "Reshape" ->
           \* x.view(-1, ...): the first dimension is inferred
           LET rest == Tail(l.shape) IN
           IF Prod(s) % Prod(rest) # 0 THEN Raised
           ELSE Tensor(<<Prod(s) \div Prod(rest)>> \o rest, t.range, t.graph)
      [] l.kind = "ConvTranspose2d" ->
           IF n # 4 \/ s[2] # l.cin THEN Raised
           ELSE Tensor(<<s[1], l.cout, ConvTransposeOut(s[3], l.k, l.stride),
                         ConvTransposeOut(s[4], l.k, l.stride)>>, "R", t.graph)
      [] l.kind = "Conv2d" ->
           IF n # 4 \/ s[2] # l.cin \/ s[3] < l.k \/ s[4] < l.k THEN Raised
           ELSE Tensor(<<s[1], l.cout, ConvOut(s[3], l.k, l.stride),
                         ConvOut(s[4], l.k, l.stride)>>, "R", t.graph)
      [] l.kind = "Tanh" -> Tensor(s, "[-1,1]", t.graph)
      [] l.kind = "Sigmoid" -> Tensor(s, "[0,1]", t.graph)
      [] l.kind = "Dropout" ->
           \* in training mode the kept values are scaled by 1/(1-p)
           Tensor(s, IF train THEN "R" ELSE t.range, t.graph)
      [] l.kind = "Flatten" -> Tensor(<<s[1], Prod(Tail(s))>>, t.range, t.graph)

\* Generator.model
GeneratorLayers ==
    << Linear(LATENT_DIM, 128*7*7), BatchNorm1d(128*7*7), LeakyReLU,
       Reshape(<<-1, 128, 7, 7>>),
       ConvTranspose2d(128, 128, 4, 2), BatchNorm2d(128), LeakyReLU,
       ConvTranspose2d(128, 128, 4, 2), BatchNorm2d(128), LeakyReLU,
       Conv2d(128, 1, 7, 1), Tanh >>

\* variant of DiscriminatorLayers whose linear layer expects 64*7*7 features
DiscriminatorLayersWideLinear ==
    << Conv2d(1, 64, 3, 2), LeakyReLU, Dropout,
       Conv2d(64, 64, 3, 2), LeakyReLU, Dropout,
       Flatten, Linear(64*7*7, 1), Sigmoid >>

\* Discriminator.model
DiscriminatorLayers ==
    << Conv2d(1, 64, 3, 2), LeakyReLU, Dropout,
       Conv2d(64, 64, 3, 2), LeakyReLU, Dropout,
       Flatten, Linear(2304, 1), Sigmoid >>

Layers(name) == IF name = "generator" THEN GeneratorLayers ELSE DiscriminatorLayers

RECURSIVE Sequential(_, _, _)
\* nn.Sequential: the layers applied in order
Sequential(layers, t, train) ==
    IF layers = <<>> THEN t
    ELSE Sequential(Tail(layers), ApplyLayer(Head(layers), t, train), train)

\* Model.forward: self.model(x); the output's graph reaches the model's parameters
Forward(m, t) ==
    LET out == Sequential(Layers(m.name), t, m.training) IN
    IF out.ok THEN [out EXCEPT !.graph = @ \cup {m.name}] ELSE out

\* Model.predict: self.model(x).detach()
Predict(m, t) == Detach(Forward(m, t))

\* a forward pass in training mode updates the running statistics of the
\* model's batch-normalisation layers, which are buffers, not parameters
AfterForward(m) ==
    IF m.training /\ \E k \in 1..Len(Layers(m.name)) :
                        Layers(m.name)[k].kind \in {"BatchNorm1d", "BatchNorm2d"}
    THEN [m EXCEPT !.buffers = @ + 1]
    ELSE m

\* nn.BCELoss: input and target of one shape, input within [0, 1]
BCELoss(output, targetShape) ==
    IF ~output.ok THEN Raised
    ELSE IF output.shape # targetShape \/ output.range \notin {"[0,1]", "[0,1)"}
    THEN Raised
    ELSE Tensor(<<>>, "R", output.graph)

\* variant of generator_optimizer built over the parameters of both models
GeneratorOptimizerOverBoth == {"generator", "discriminator"}

\* optim.Adam(generator.parameters(), ...): the models whose parameters it holds
generator_optimizer == {"generator"}

\* optim.Adam(discriminator.parameters(), ...)
discriminator_optimizer == {"discriminator"}

\* variant of ZeroGrad that leaves the gradients in place
ZeroGradOmitted(opt, m) == m

\* optimizer.zero_grad(): the gradients of the optimizer's parameters are reset
ZeroGrad(opt, m) == IF m.name \in opt THEN [m EXCEPT !.grad = {}] ELSE m

\* loss.backward(): every parameter the graph reaches accumulates the
\* gradient of this loss, here named by its tag
Backward(m, loss, tag) ==
    IF m.name \in loss.graph THEN [m EXCEPT !.grad = @ \cup {tag}] ELSE m

\* optimizer.step(): Adam updates each of its parameters from the gradient the
\* parameter holds; parameters without gradient are skipped.  `applied` keeps
\* the gradients the latest update of m was computed from
Step(opt, m) ==
    IF m.name \notin opt \/ m.grad = {} THEN m
    ELSE [m EXCEPT !.params = @ + 1, !.applied = m.grad]

(***************************************************************************)
(* The data loader: batches of int(BATCH_SIZE/2), the last one not dropped *)
(***************************************************************************)
\* variant of LoaderBatchSize: batch_size=BATCH_SIZE
LoaderBatchSizeFull == BATCH_SIZE

\* DataLoader(dataset, batch_size=int(BATCH_SIZE/2), ...)
LoaderBatchSize == HalfBatch

\* len(dataloader)
NumBatches == (DATASET_SIZE + LoaderBatchSize - 1) \div LoaderBatchSize

\* number of images in batch k (from 0) of an epoch
BatchLen(k) ==
    IF (k + 1) * LoaderBatchSize <= DATASET_SIZE THEN LoaderBatchSize
    ELSE DATASET_SIZE - k * LoaderBatchSize

\* torch.zeros(n).fill_(v)
Filled(n, v) == [k \in 1..n |-> v]

(***************************************************************************)
(* Strings, as sequences of ASCII codes.                                   *)
(***************************************************************************)
RECURSIVE Digits(_)
\* the decimal digits of n >= 0
Digits(n) == IF n < 10 THEN <<48 + n>> ELSE Digits(n \div 10) \o <<48 + (n % 10)>>

RECURSIVE ZeroPad(_, _)
ZeroPad(s, width) == IF Len(s) >= width THEN s ELSE ZeroPad(<<48>> \o s, width)

\* variant of FormatD without zero padding
FormatDNoPad(n, width) == IF n < 0 THEN <<45>> \o Digits(-n) ELSE Digits(n)

\* '%0<width>d' % n, and '%i' % n with width 0: the sign, then the digits
\* padded with zeros to the width; longer numbers are not cut
FormatD(n, width) ==
    IF n < 0 THEN <<45>> \o ZeroPad(Digits(-n), width - 1)
    ELSE ZeroPad(Digits(n), width)

RECURSIVE LexLess(_, _)
\* s sorts strictly before t, byte by byte
LexLess(s, t) ==
    IF t = <<>> THEN FALSE
    ELSE IF s = <<>> THEN TRUE
    ELSE IF Head(s) # Head(t) THEN Head(s) < Head(t)
    ELSE LexLess(Tail(s), Tail(t))

\* 'figs/plot  epoch '
StrPlotEpoch == <<102,105,103,115,47,112,108,111,116,32,32,101,112,111,99,104,32>>
\* '  batch '
StrBatch == <<32,32,98,97,116,99,104,32>>
\* '.png'
StrPng == <<46,112,110,103>>

\* 'figs/plot  epoch ' + '%02d' % epoch + '  batch ' + '%05d' % i + '.png'
SnapshotName(e, b) ==
    StrPlotEpoch \o FormatD(e, 2) \o StrBatch \o FormatD(b, 5) \o StrPng

(***************************************************************************)
(* The training loop.                                                      *)
(***************************************************************************)
NewModel(name) ==
    [name |-> name, training |-> TRUE, params |-> 0, buffers |-> 0,
     grad |-> {}, applied |-> {}]

\* `for a in range(30)`: the rows of fake_imgs a snapshot plots
SNAPSHOT_ROWS == 30

\* STEP 1: Train Discriminator
TrainDiscriminator ==
    /\ pc = "step1"
    /\ LET real_imgs == ImageBatch(BatchLen(i))
           real_labels == Filled(HalfBatch, REAL_LABEL)
           latent_points == generate_latent_points(LATENT_DIM, HalfBatch)
           fake_imgs == Detach(Predict(generator, latent_points))
           fake_labels == Filled(HalfBatch, FAKE_LABEL)
           gen0 == ZeroGrad(discriminator_optimizer, AfterForward(generator))
           disc0 == ZeroGrad(discriminator_optimizer, discriminator)
           all == Cat(real_imgs, fake_imgs)
           labels == real_labels \o fake_labels
           \* discriminator.train_on(images_all, labels_all, criterion, optimizer)
           output == Forward(disc0, all)
           loss == BCELoss(output, <<Len(labels), 1>>)
           tag == <<"discriminator", epoch, i>>
       IN /\ images_all' = IF all.ok
                           THEN [k \in 1..all.shape[1] |->
                                   IF k <= real_imgs.shape[1] THEN "real" ELSE "fake"]
                           ELSE images_all
          /\ labels_all' = IF all.ok THEN labels ELSE labels_all
          /\ IF loss.ok
             THEN /\ generator' = Step(discriminator_optimizer, Backward(gen0, loss, tag))
                  /\ discriminator' = Step(discriminator_optimizer,
                                           Backward(AfterForward(disc0), loss, tag))
                  /\ discriminator_loss' = tag
                  /\ pc' = "step2"
             ELSE /\ generator' = IF fake_imgs.ok THEN gen0 ELSE AfterForward(generator)
                  /\ discriminator' = IF fake_imgs.ok THEN disc0 ELSE discriminator
                  /\ discriminator_loss' = discriminator_loss
                  /\ pc' = "raised"
    /\ UNCHANGED <<epoch, i, generator_loss, iterations,
                   printed, last_line, saved, last_file, prev_file>>
    /\ UNCHANGED <<videoVars, forwardVars>>

\* STEP 2: Train Generator
TrainGenerator ==
    /\ pc = "step2"
    /\ LET gen0 == ZeroGrad(generator_optimizer, generator)
           disc0 == ZeroGrad(generator_optimizer, discriminator)
           fake_batch == generate_latent_points(LATENT_DIM, BATCH_SIZE)
           fake_batch_labels == Filled(BATCH_SIZE, REAL_LABEL)
           generator_imgs == Forward(gen0, fake_batch)
           gen1 == AfterForward(gen0)
           output == Forward(disc0, generator_imgs)
           loss == BCELoss(output, <<Len(fake_batch_labels), 1>>)
           tag == <<"generator", epoch, i>>
       IN IF loss.ok
          THEN /\ generator' = Step(generator_optimizer, Backward(gen1, loss, tag))
               /\ discriminator' = Step(generator_optimizer,
                                        Backward(AfterForward(disc0), loss, tag))
               /\ generator_loss' = tag
               /\ pc' = "step3"
          ELSE /\ generator' = gen1
               /\ discriminator' = disc0
               /\ generator_loss' = generator_loss
               /\ pc' = "raised"
    /\ UNCHANGED <<epoch, i, images_all, labels_all, discriminator_loss,
                   iterations, printed, last_line, saved, last_file, prev_file>>
    /\ UNCHANGED <<videoVars, forwardVars>>

\* the print of STEP 3
LogLine ==
    [epoch |-> epoch, batch |-> i, batches |-> NumBatches,
     generator_loss |-> generator_loss, discriminator_loss |-> discriminator_loss,
     d_steps |-> discriminator.params, g_steps |-> generator.params]

\* variant of NextPosition that leaves out the last batch of every epoch
NextPositionSkipsLastBatch(e, b) ==
    IF b + 1 < NumBatches - 1 THEN <<e, b + 1, "step1">>
    ELSE IF e + 1 < EPOCHS THEN <<e + 1, 0, "step1">>
    ELSE <<e, b, "done">>

\* `for epoch in range(EPOCHS): for i, data in enumerate(dataloader, 0):`
\* the position after iteration (e, b); the loop variables keep their last values
NextPosition(e, b) ==
    IF b + 1 < NumBatches THEN <<e, b + 1, "step1">>
    ELSE IF e + 1 < EPOCHS THEN <<e + 1, 0, "step1">>
    ELSE <<e, b, "done">>

\* variant of LogNow that holds in every iteration
LogNowEveryIteration == TRUE

\* `if i % 25 == 0`
LogNow == i % LOG_EVERY = 0

\* STEP 3: Logging and Visualizing, and the step of the two for loops
LogAndVisualize ==
    /\ pc = "step3"
    /\ LET plotted == ~LogNow \/ HalfBatch >= SNAPSHOT_ROWS IN
       /\ printed' = IF LogNow THEN printed + 1 ELSE printed
       /\ last_line' = IF LogNow THEN LogLine ELSE last_line
       /\ saved' = IF LogNow /\ plotted THEN saved + 1 ELSE saved
       /\ last_file' = IF LogNow /\ plotted THEN SnapshotName(epoch, i) ELSE last_file
       /\ prev_file' = IF LogNow /\ plotted THEN last_file ELSE prev_file
       /\ IF ~plotted
          THEN /\ pc' = "raised"
               /\ UNCHANGED <<epoch, i, iterations>>
          ELSE /\ iterations' = iterations + 1
               /\ epoch' = NextPosition(epoch, i)[1]
               /\ i' = NextPosition(epoch, i)[2]
               /\ pc' = NextPosition(epoch, i)[3]
    /\ UNCHANGED <<generator, discriminator, images_all, labels_all,
                   discriminator_loss, generator_loss>>
    /\ UNCHANGED <<videoVars, forwardVars>>

\* the state when the training loop is reached; the other two programs idle
Init ==
    /\ pc = IF EPOCHS > 0 /\ NumBatches > 0 THEN "step1" ELSE "done"
    /\ epoch = 0
    /\ i = 0
    /\ generator = NewModel("generator")
    /\ discriminator = NewModel("discriminator")
    /\ images_all = <<>>
    /\ labels_all = <<>>
    /\ discriminator_loss = "unbound"
    /\ generator_loss = "unbound"
    /\ iterations = 0
    /\ printed = 0
    /\ last_line = <<>>
    /\ saved = 0
    /\ last_file = <<>>
    /\ prev_file = <<>>
    /\ vpc = "idle"
    /\ argv = <<>>
    /\ args = <<>>
    /\ command = <<>>
    /\ fpc = "idle"
    /\ net = "none"
    /\ training = FALSE
    /\ batch = 0
    /\ x = Raised
    /\ layer = 0

Next == TrainDiscriminator \/ TrainGenerator \/ LogAndVisualize

\* the training script
Spec == Init /\ [][Next]_vars

(***************************************************************************)
(* One forward pass: a batch of inputs through the generator or the        *)
(* discriminator, in training or in evaluation mode, layer by layer.       *)
(***************************************************************************)
\* largest batch of the small batches tried
MaxSamples == 4

BatchSizes == (1..MaxSamples) \cup {HalfBatch, BATCH_SIZE}

\* self.model(x): the next layer of the nn.Sequential
ForwardLayer ==
    /\ fpc \in {"called", "running"}
    /\ layer < Len(Layers(net))
    /\ layer' = layer + 1
    /\ x' = ApplyLayer(Layers(net)[layer + 1], x, training)
    /\ fpc' = IF ~x'.ok THEN "raised"
              ELSE IF layer' = Len(Layers(net)) THEN "returned"
              ELSE "running"
    /\ UNCHANGED <<net, training, batch>>
    /\ UNCHANGED <<trainVars, videoVars>>

NextForward == ForwardLayer

\* a call of either network, in either mode, on a batch of any of the sizes
InitForward ==
    /\ fpc = "called"
    /\ net \in {"generator", "discriminator"}
    /\ training \in BOOLEAN
    /\ batch \in BatchSizes
    /\ x = IF net = "generator"
           THEN generate_latent_points(LATENT_DIM, batch)
           ELSE ImageBatch(batch)
    /\ layer = 0
    /\ pc = "idle"
    /\ epoch = 0
    /\ i = 0
    /\ generator = NewModel("generator")
    /\ discriminator = NewModel("discriminator")
    /\ images_all = <<>>
    /\ labels_all = <<>>
    /\ discriminator_loss = "unbound"
    /\ generator_loss = "unbound"
    /\ iterations = 0
    /\ printed = 0
    /\ last_line = <<>>
    /\ saved = 0
    /\ last_file = <<>>
    /\ prev_file = <<>>
    /\ vpc = "idle"
    /\ argv = <<>>
    /\ args = <<>>
    /\ command = <<>>

\* a forward pass of either network on any batch
SpecForward == InitForward /\ [][NextForward]_vars

(***************************************************************************)
(* The video assembler.  A flag is <<>> when absent from the command line  *)
(* and <<value>> when given.                                               *)
(***************************************************************************)
\* 'figs/'
StrFigs == <<102,105,103,115,47>>
\* 'mnist-gan.mp4'
StrMnistGanMp4 == <<109,110,105,115,116,45,103,97,110,46,109,112,52>>
\* 'ffmpeg -framerate '
StrFfmpegFramerate ==
    <<102,102,109,112,101,103,32,45,102,114,97,109,101,114,97,116,101,32>>
\* " -pattern_type glob -i '"
StrPatternGlob ==
    <<32,45,112,97,116,116,101,114,110,95,116,121,112,101,32,103,108,111,98,32,45,105,32,39>>
\* "*.png' -c:v libx264 "
StrPngCodec == <<42,46,112,110,103,39,32,45,99,58,118,32,108,105,98,120,50,54,52,32>>

\* values tried for --figs: 'out/', 'run 2/'
FigsInputs == { <<>>, <<StrFigs>>, <<<<111,117,116,47>>>>, <<<<114,117,110,32,50,47>>>> }
\* values tried for --framerate: '8', '04', '30', '-1', '4x'
FramerateInputs ==
    { <<>>, <<<<56>>>>, <<<<48,52>>>>, <<<<51,48>>>>, <<<<45,49>>>>, <<<<52,120>>>> }
\* values tried for --out: 'a.mp4', 'my video.mp4'
OutInputs ==
    { <<>>, <<<<97,46,109,112,52>>>>, <<<<109,121,32,118,105,100,101,111,46,109,112,52>>>> }

IsDigit(c) == c >= 48 /\ c <= 57

RECURSIVE DigitsValue(_, _)
DigitsValue(s, acc) ==
    IF s = <<>> THEN acc ELSE DigitsValue(Tail(s), 10 * acc + (Head(s) - 48))

\* int(s), the type=int of --framerate: an optional sign, then digits
ParseInt(s) ==
    LET signed == s # <<>> /\ Head(s) \in {43, 45}
        digits == IF signed THEN Tail(s) ELSE s
    IN IF digits = <<>> \/ \E k \in 1..Len(digits) : ~IsDigit(digits[k])
       THEN [ok |-> FALSE, value |-> 0]
       ELSE [ok |-> TRUE,
             value |-> IF signed /\ Head(s) = 45 THEN -DigitsValue(digits, 0)
                       ELSE DigitsValue(digits, 0)]

\* default=4 of --framerate
DEFAULT_FRAMERATE == 4

\* args = parser.parse_args(): a flag that is absent takes its default; an
\* invalid --framerate ends the program with a usage error
ParseArgs ==
    /\ vpc = "start"
    /\ IF argv.framerate # <<>> /\ ~ParseInt(argv.framerate[1]).ok
       THEN /\ vpc' = "usage error"
            /\ args' = args
       ELSE /\ vpc' = "parsed"
            /\ args' = [figs |-> IF argv.figs = <<>> THEN StrFigs ELSE argv.figs[1],
                        framerate |-> IF argv.framerate = <<>> THEN DEFAULT_FRAMERATE
                                      ELSE ParseInt(argv.framerate[1]).value,
                        out |-> IF argv.out = <<>> THEN StrMnistGanMp4 ELSE argv.out[1]]
    /\ UNCHANGED <<argv, command>>
    /\ UNCHANGED <<trainVars, forwardVars>>

\* variant of Command with args.figs and args.out exchanged
CommandSwapped(a) ==
    StrFfmpegFramerate \o FormatD(a.framerate, 0) \o StrPatternGlob
        \o a.out \o StrPngCodec \o a.figs

\* "ffmpeg -framerate %i -pattern_type glob -i '%s*.png' -c:v libx264 %s" %
\*     (args.framerate, args.figs, args.out)
Command(a) ==
    StrFfmpegFramerate \o FormatD(a.framerate, 0) \o StrPatternGlob
        \o a.figs \o StrPngCodec \o a.out

BuildCommand ==
    /\ vpc = "parsed"
    /\ command' = Command(args)
    /\ vpc' = "built"
    /\ UNCHANGED <<argv, args>>
    /\ UNCHANGED <<trainVars, forwardVars>>

\* print(command); os.system(command): the exit status is not looked at
RunCommand ==
    /\ vpc = "built"
    /\ vpc' = "done"
    /\ UNCHANGED <<argv, args, command>>
    /\ UNCHANGED <<trainVars, forwardVars>>

NextVideo == ParseArgs \/ BuildCommand \/ RunCommand

\* the video assembler started with any of the command lines
InitVideo ==
    /\ vpc = "start"
    /\ argv \in [figs : FigsInputs, framerate : FramerateInputs, out : OutInputs]
    /\ args = <<>>
    /\ command = <<>>
    /\ pc = "idle"
    /\ epoch = 0
    /\ i = 0
    /\ generator = NewModel("generator")
    /\ discriminator = NewModel("discriminator")
    /\ images_all = <<>>
    /\ labels_all = <<>>
    /\ discriminator_loss = "unbound"
    /\ generator_loss = "unbound"
    /\ iterations = 0
    /\ printed = 0
    /\ last_line = <<>>
    /\ saved = 0
    /\ last_file = <<>>
    /\ prev_file = <<>>
    /\ fpc = "idle"
    /\ net = "none"
    /\ training = FALSE
    /\ batch = 0
    /\ x = Raised
    /\ layer = 0

\* the video assembler on any command line
SpecVideo == InitVideo /\ [][NextVideo]_vars

(***************************************************************************)
(* Properties of the training loop, checked under Spec.                    *)
(***************************************************************************)

\* C1: the discriminator step changes the discriminator's parameters and
\* leaves the generator's trainable parameters unchanged; no gradient
\* reaches the generator in that step.
C1_DiscriminatorStepFrame ==
    [][pc = "step1" =>
        /\ pc' = "step2"
        /\ discriminator'.params # discriminator.params
        /\ generator'.params = generator.params
        /\ generator'.grad = generator.grad]_vars

\* a discriminator step taken after the generator has been trained, with the
\* generator's gradient of the previous iteration still in place
C1_Witness ==
    /\ pc = "step2"
    /\ iterations >= 1
    /\ discriminator.params = generator.params + 1
    /\ generator.grad # {}

\* C2: the generator step changes the generator's parameters and leaves the
\* discriminator's parameters unchanged, although its backward pass leaves
\* gradients on the discriminator's parameters.
C2_GeneratorStepFrame ==
    [][pc = "step2" =>
        /\ pc' = "step3"
        /\ generator'.params # generator.params
        /\ discriminator'.params = discriminator.params
        /\ <<"generator", epoch, i>> \in discriminator'.grad]_vars

C2_Witness ==
    /\ pc = "step3"
    /\ generator.params = discriminator.params
    /\ generator.params >= 2
    /\ <<"generator", epoch, i>> \in discriminator.grad

\* C3: in every iteration labels_all has as many entries as images_all, its
\* first half is REAL_LABEL, its second half FAKE_LABEL, and label k tags
\* image k (a dataset image is real, a generated one fake).
C3_LabelsMatchImages ==
    /\ pc # "raised"
    /\ pc \in {"step2", "step3", "done"} =>
        /\ Len(labels_all) = Len(images_all)
        /\ Len(images_all) = BatchLen(i) + HalfBatch
        /\ \A k \in 1..Len(labels_all) :
            /\ labels_all[k] = IF 2 * k <= Len(labels_all) THEN REAL_LABEL
                               ELSE FAKE_LABEL
            /\ images_all[k] = IF labels_all[k] = REAL_LABEL THEN "real" ELSE "fake"

\* the combined batch of the last iteration of an epoch
C3_Witness ==
    /\ pc = "step2"
    /\ i = NumBatches - 1
    /\ Len(images_all) = BATCH_SIZE
    /\ labels_all[1] = REAL_LABEL
    /\ labels_all[BATCH_SIZE] = FAKE_LABEL

\* C5: the loop never ends early (no step raises), is done only after
\* EPOCHS * len(dataloader) iterations, one for every batch of every epoch in
\* order, and each iteration is one discriminator step followed by one
\* generator step.
C5_FullRun ==
    /\ pc \in {"step1", "step2", "step3", "done"}
    /\ pc = "done" => iterations = EPOCHS * NumBatches
    /\ pc # "done" => /\ iterations = epoch * NumBatches + i
                      /\ epoch < EPOCHS
                      /\ i < NumBatches
    /\ discriminator.params = iterations + (IF pc \in {"step2", "step3"} THEN 1 ELSE 0)
    /\ generator.params = iterations + (IF pc = "step3" THEN 1 ELSE 0)

C5_Witness ==
    /\ pc = "done"
    /\ iterations = 12000
    /\ discriminator.params = 12000
    /\ generator.params = 12000

\* progress lines per epoch: the batches 0, 25, 50, ...
LogsPerEpoch == (NumBatches + LOG_EVERY - 1) \div LOG_EVERY

\* progress lines due once `done` iterations are completed
LogsDue(done) ==
    (done \div NumBatches) * LogsPerEpoch
        + ((done % NumBatches) + LOG_EVERY - 1) \div LOG_EVERY

\* the epoch and the batch index of the k-th iteration (from 1) that is due
\* a progress line
DueEpoch(k) == (k - 1) \div LogsPerEpoch
DueBatch(k) == ((k - 1) % LogsPerEpoch) * 25

\* C6: a progress line and a snapshot are emitted in exactly the iterations
\* whose batch index is a multiple of 25, counted anew in every epoch, after
\* both training steps of that iteration, and always together.
C6_LogEvery25 ==
    /\ printed = LogsDue(iterations)
    /\ saved = printed
    /\ printed >= 1 =>
        /\ last_line.epoch = DueEpoch(printed)
        /\ last_line.batch = DueBatch(printed)
        /\ last_line.batch % 25 = 0
        /\ last_line.d_steps = last_line.epoch * NumBatches + last_line.batch + 1
        /\ last_line.g_steps = last_line.d_steps
        /\ last_line.generator_loss = <<"generator", last_line.epoch, last_line.batch>>
        /\ last_line.discriminator_loss =
               <<"discriminator", last_line.epoch, last_line.batch>>
        /\ last_file = SnapshotName(last_line.epoch, last_line.batch)

\* the line of batch 0 of the second epoch, the 25th, printed right after the
\* two training steps of that iteration
C6_Witness ==
    /\ printed = 25
    /\ saved = 25
    /\ last_line.epoch = 1
    /\ last_line.batch = 0
    /\ epoch = 1
    /\ i = 1
    /\ pc = "step1"

\* name is 'figs/plot  epoch EE  batch BBBBB.png' with digits E and B
IsSnapshotName(name) ==
    /\ Len(name) = 36
    /\ SubSeq(name, 1, 17) = StrPlotEpoch
    /\ \A k \in 18..19 : IsDigit(name[k])
    /\ SubSeq(name, 20, 27) = StrBatch
    /\ \A k \in 28..32 : IsDigit(name[k])
    /\ SubSeq(name, 33, 36) = StrPng

\* C7: every snapshot is named 'figs/plot  epoch EE  batch BBBBB.png' with
\* the epoch and the batch index of its iteration, and sorts strictly after
\* the snapshot written before it; at the end of the run the names of all
\* snapshots sort in the order of writing, so that no name is used twice.
C7_SnapshotOrder ==
    /\ saved >= 1 =>
        /\ IsSnapshotName(last_file)
        /\ DigitsValue(SubSeq(last_file, 18, 19), 0) = DueEpoch(saved)
        /\ DigitsValue(SubSeq(last_file, 28, 32), 0) = DueBatch(saved)
    /\ saved >= 2 => LexLess(prev_file, last_file)
    /\ pc = "done" =>
        \A j \in 1..saved : \A k \in (j + 1)..saved :
            LexLess(SnapshotName(DueEpoch(j), DueBatch(j)),
                    SnapshotName(DueEpoch(k), DueBatch(k)))

\* the end of a full run: 480 snapshots, the last two of epoch 19
C7_Witness ==
    /\ pc = "done"
    /\ saved = 480
    /\ prev_file = SnapshotName(19, 550)
    /\ last_file = SnapshotName(19, 575)

GeneratorReturnsImages ==
    /\ fpc # "raised"
    /\ layer >= 1 => x.shape[1] = batch
    /\ layer = 1 => x.shape = <<batch, 128 * 7 * 7>>
    /\ layer = 4 => x.shape = <<batch, 128, 7, 7>>
    /\ fpc = "returned" =>
        /\ x.shape = <<batch, 1, IMAGE_SIZE, IMAGE_SIZE>>
        /\ x.range \in {"[-1,1]", "[0,1]", "[0,1)"}

\* C8 as stated: for every batch of N >= 1 latent vectors the generator
\* returns N images of 1 x 28 x 28 with values in [-1, 1].
C8_AnyBatch == net = "generator" => GeneratorReturnsImages

\* C8 as amended: the same for N >= 2, and for N = 1 when the generator is in
\* evaluation mode.
C8_GeneratorShape ==
    (net = "generator" /\ (batch >= 2 \/ ~training)) => GeneratorReturnsImages

\* the smallest batch the generator takes in training mode
C8_Witness ==
    /\ net = "generator"
    /\ training
    /\ batch = 2
    /\ fpc = "returned"
    /\ x.shape = <<2, 1, 28, 28>>

\* C9: for every batch of N images of 1 x 28 x 28 the discriminator returns
\* N probabilities in [0, 1]; the flattened features are the 2304 inputs of
\* the linear layer.
C9_DiscriminatorShape ==
    net = "discriminator" =>
        /\ fpc # "raised"
        /\ layer = 7 => x.shape = <<batch, 2304>>
        /\ fpc = "returned" => /\ x.shape = <<batch, 1>>
                               /\ x.range = "[0,1]"

C9_Witness ==
    /\ net = "discriminator"
    /\ training
    /\ batch = 1
    /\ fpc = "returned"
    /\ x.shape = <<1, 1>>

(***************************************************************************)
(* Properties of the video assembler, checked under SpecVideo.             *)
(***************************************************************************)
\* "ffmpeg -framerate 4 -pattern_type glob -i 'figs/*.png' -c:v libx264 mnist-gan.mp4"
DefaultCommand ==
    <<102,102,109,112,101,103,32,45,102,114,97,109,101,114,97,116,101,32,52,32,
      45,112,97,116,116,101,114,110,95,116,121,112,101,32,103,108,111,98,32,45,
      105,32,39,102,105,103,115,47,42,46,112,110,103,39,32,45,99,58,118,32,108,
      105,98,120,50,54,52,32,109,110,105,115,116,45,103,97,110,46,109,112,52>>

\* the command is the default command with its three tokens replaced by f, g, o
Slotted(cmd, f, g, o) ==
    cmd = SubSeq(DefaultCommand, 1, 18) \o f \o SubSeq(DefaultCommand, 20, 43)
            \o g \o SubSeq(DefaultCommand, 49, 68) \o o

\* C4: without flags the command is the default command; with flags, each
\* token is the default's unless its own flag is given, and then it is the
\* flag's value (for --framerate, a numeral of the flag's value).
C4_CommandTokens ==
    vpc \in {"built", "done"} =>
        /\ (argv.figs = <<>> /\ argv.framerate = <<>> /\ argv.out = <<>>)
               => command = DefaultCommand
        /\ \E fl \in 1..(Len(command) - 62) : \E gl \in 0..(Len(command) - 62 - fl) :
            LET f == SubSeq(command, 19, 18 + fl)
                g == SubSeq(command, 43 + fl, 42 + fl + gl)
                o == SubSeq(command, 63 + fl + gl, Len(command))
            IN /\ Slotted(command, f, g, o)
               /\ f = IF argv.framerate = <<>> THEN SubSeq(DefaultCommand, 19, 19) ELSE f
               /\ argv.framerate # <<>> =>
                    /\ ParseInt(f).ok
                    /\ ParseInt(f).value = ParseInt(argv.framerate[1]).value
               /\ g = IF argv.figs = <<>> THEN SubSeq(DefaultCommand, 44, 48)
                      ELSE argv.figs[1]
               /\ o = IF argv.out = <<>> THEN SubSeq(DefaultCommand, 69, 81)
                      ELSE argv.out[1]

\* the command built for `--figs out/` alone
C4_Witness ==
    /\ vpc = "built"
    /\ argv = [figs |-> <<<<111,117,116,47>>>>, framerate |-> <<>>, out |-> <<>>]
    /\ command = SubSeq(DefaultCommand, 1, 43) \o <<111,117,116,47>>
                    \o SubSeq(DefaultCommand, 49, 81)

====
